---- MODULE Spec2Model ----
(***************************************************************************)
(* tg-feeds: the incremental synchronisation of a Telegram channel into a  *)
(* SQLite cache (prepareFeed in main.go) with its two collaborators, the   *)
(* Fetcher (TelegramWebFetcher) and the Cache (SqliteCache).               *)
(*                                                                         *)
(* One step of the model is one call of prepareFeed on a collaborator,     *)
(* together with the local code around it.  A call that holds a lock of    *)
(* the shared cache while other requests run is two steps: SavePosts up to *)
(* its first INSERT and from there to its Commit, GetChannel and GetPosts  *)
(* up to their first row and from there to the close of the rows.  A post  *)
(* is represented by its                                                   *)
(* Link (the remote id the URL is built from) and its CreatedAt; Header    *)
(* and Content are carried through the synchroniser verbatim.  Times are   *)
(* naturals, ZeroTime is Go's zero time.Time.  A Go error is a string, ""  *)
(* is nil.  Every statement of the store can fail on its own, within the   *)
(* budget of irregular answers; while a request's                          *)
(* transaction holds the write lock of the shared cache every statement of *)
(* another request on table posts and every write of it fails, and while a *)
(* request reads a table every write of another request to it fails.  Rows *)
(* with equal createdAt are listed in rowid order.                         *)
(***************************************************************************)
EXTENDS Integers, Sequences, FiniteSets, TLC

MAX_RSS_POSTS_COUNT == 20

\* the length beyond which FetchPost makes a header, and the length it cuts to
HeaderLimit == 100

\* Go's zero time.Time, what createdAt holds when no date was parsed.
ZeroTime == 0

\* ---- bounds of the model ------------------------------------------------
\* largest head id the remote channel reaches
MaxHead == 24
\* head of a young channel at the first request: 0..MaxYoung
MaxYoung == 3
\* head of an old channel at the first request: more than a feed holds
OldHead == MAX_RSS_POSTS_COUNT + 2
\* how the remote head moves between two head fetches: new messages are
\* published or, irregularly, the newest ones are deleted
HeadGrows == {0, 1, 2}
HeadDrops == {-1}
\* number of prepareFeed calls in one behaviour
MaxSyncs == 3
\* number of irregular answers (remote or store) in one behaviour
MaxFaults == 1

\* a listing page on its own: at most MaxListing messages, ids 1..MaxListingId
MaxListing == 3
MaxListingId == 5
\* a post's text on its own: up to MaxTail characters after the one that
\* follows the filling
MaxTail == 2

ChannelName == "chan"
Procs == {1, 2}
SeqProcs == {1}

VARIABLES
    channels,         \* table channels: sequence of DbChannel rows
    postsTable,       \* table posts: sequence of DbPost rows, in rowid order
    remoteHead,       \* highest message id on the remote listing page (0: none)
    headDropped,      \* history: some head fetch saw a lower head than before
    syncs,            \* number of prepareFeed calls started since the initial state
    faults,           \* number of irregular answers given since the initial state
    pc,               \* per request: position in prepareFeed
    channel,          \* per request: result of FetchChannel
    err,              \* per request: error of FetchChannel ("" is nil)
    dbCachedChannel,  \* per request: the DbChannel in use
    posts,            \* per request: posts collected by the walk
    postId,           \* per request: candidate id of the walk
    ret,              \* per request: what prepareFeed returned
    fetchLog,         \* history, per request: FetchPost calls of this call
    storeLog,         \* history, per request: Cache calls of this call
    lastUpdate,       \* history: the request that ran UpdateLastPostId last
    lostIds,          \* history: ids whose fetch failed in a walk that then moved the cursor past them
    lostBatch,        \* history: head of the previous call when its SavePosts failed, else 0
    txOwner,          \* the request whose SavePosts transaction has inserted and not yet ended (0: none)
    doc,              \* the page a Fetcher method is applied to on its own
    parsed            \* what the Fetcher method made of that page

vars == <<channels, postsTable, remoteHead, headDropped, syncs, faults, pc,
          channel, err, dbCachedChannel, posts, postId, ret, fetchLog, storeLog,
          lastUpdate, lostIds, lostBatch, txOwner, doc, parsed>>

Min(a, b) == IF a < b THEN a ELSE b

\* ---- URLs ---------------------------------------------------------------
\* The post URL is injective in (channelName, id); the pair stands for it.
tgChannelPostUrl(channelName, id) == id
tgChannelFeedUrl(channelName) == <<"https://t.me/s/", channelName>>

\* ---- zero values --------------------------------------------------------
ZeroChannel == [Name |-> "", Title |-> "", LastId |-> 0, Link |-> <<>>,
                Description |-> ""]
ZeroDbChannel == [Id |-> 0, Name |-> "", Title |-> "", LastId |-> 0,
                  Link |-> <<>>, Description |-> ""]
ZeroPost == [Link |-> 0, CreatedAt |-> ZeroTime]

\* ---- the remote pages ---------------------------------------------------
\* Message ids shown by the listing page of a channel whose head is h.
ListingIds(h) == IF h = 0 THEN <<>> ELSE IF h = 1 THEN <<1>> ELSE <<h - 1, h>>

\* body: whether the body of the answer can be read to its end; slash: whether
\* the data-post attribute of every message holds a "/".
RegularListing(h) ==
    [neterr |-> FALSE, body |-> TRUE, slash |-> TRUE,
     ids |-> ListingIds(h), title |-> "T1", description |-> "D1"]

\* The listing page within the fault budget: unreachable, with other metadata,
\* cut while its body is read, or with a message whose data-post has no "/".
IrregularListings(h) ==
    { [neterr |-> TRUE, body |-> TRUE, slash |-> TRUE,
       ids |-> <<>>, title |-> "", description |-> ""],
      [neterr |-> FALSE, body |-> TRUE, slash |-> TRUE,
       ids |-> ListingIds(h), title |-> "T2", description |-> "D2"],
      [neterr |-> FALSE, body |-> FALSE, slash |-> TRUE,
       ids |-> <<>>, title |-> "", description |-> ""],
      [neterr |-> FALSE, body |-> TRUE, slash |-> FALSE,
       ids |-> ListingIds(h), title |-> "T1", description |-> "D1"] }

\* Post page of message id: regular, or (within the fault budget) unreachable,
\* marked unavailable, without a date, with an unparseable date, or carrying
\* the timestamp of the next newer message (an album).
RegularPostPage(id) ==
    [neterr |-> FALSE, error_message |-> "", date |-> "iso", datetime |-> id]

IrregularPostPages(id) ==
    { [neterr |-> TRUE, error_message |-> "", date |-> "none", datetime |-> 0],
      [neterr |-> FALSE, error_message |-> "Post not found", date |-> "none", datetime |-> 0],
      [neterr |-> FALSE, error_message |-> "", date |-> "none", datetime |-> 0],
      [neterr |-> FALSE, error_message |-> "", date |-> "bad", datetime |-> 0],
      [neterr |-> FALSE, error_message |-> "", date |-> "iso", datetime |-> id + 1] }

\* ---- Fetcher ------------------------------------------------------------
RECURSIVE LastIdOfFirstPage(_, _)
\* the callback keeping the first message's id
LastIdOfFirstPage(ids, lastId) ==
    IF ids = <<>> THEN lastId
    ELSE LET currentId == Head(ids)
         IN  LastIdOfFirstPage(Tail(ids), IF lastId = -1 THEN currentId ELSE lastId)

RECURSIVE LastIdOf(_, _)
\* the Each callback of FetchChannel folded over the messages of the page
LastIdOf(ids, lastId) ==
    IF ids = <<>> THEN lastId
    ELSE LET currentId == Head(ids)
         IN  LastIdOf(Tail(ids),
                      IF lastId = -1 \/ currentId > lastId THEN currentId ELSE lastId)

\* lines 214-254.  The error of NewDocumentFromReader (line 223) is not
\* tested: when the body cannot be read doc is nil and doc.Find (line 230)
\* panics.  split[1] (line 233) panics on a data-post without "/".
FetchChannel(channelName, page) ==
    IF page.neterr
    THEN [panic |-> FALSE, err |-> "http.Get", channel |-> ZeroChannel]
    ELSE IF ~page.body \/ ~page.slash
    THEN [panic |-> TRUE, err |-> "", channel |-> ZeroChannel]
    ELSE LET lastId == LastIdOf(page.ids, -1)
         IN  IF lastId = -1
             THEN [panic |-> FALSE, err |-> "Can't parse channel page",
                   channel |-> ZeroChannel]
             ELSE [panic |-> FALSE, err |-> "",
                   channel |-> [Name |-> channelName, Title |-> page.title,
                                LastId |-> lastId,
                                Link |-> tgChannelFeedUrl(channelName),
                                Description |-> page.description]]

\* time.Parse of the datetime attribute; the error is printed and dropped
ParseCreatedAt(page) == IF page.date = "iso" THEN page.datetime ELSE ZeroTime

FetchPost(channelName, id, page) ==
    IF page.neterr THEN [err |-> "http.Get", post |-> ZeroPost]
    ELSE IF page.error_message # ""
    THEN [err |-> page.error_message, post |-> ZeroPost]
    ELSE [err |-> "",
          post |-> [Link |-> tgChannelPostUrl(channelName, id),
                    CreatedAt |-> ParseCreatedAt(page)]]

\* Text of a post: a sequence of characters; "e'" stands for a character of
\* two bytes.  A Go string is the UTF-8 bytes of the text.
Runes == {"a", " ", "e'"}

RECURSIVE UTF8(_)
UTF8(runes) ==
    IF runes = <<>> THEN <<>>
    ELSE (IF Head(runes) = "e'" THEN <<"c3", "a9">> ELSE <<Head(runes)>>)
         \o UTF8(Tail(runes))

RECURSIVE TrimLeft(_)
TrimLeft(b) == IF b # <<>> /\ Head(b) = " " THEN TrimLeft(Tail(b)) ELSE b

RECURSIVE TrimRight(_)
TrimRight(b) ==
    IF b # <<>> /\ b[Len(b)] = " " THEN TrimRight(SubSeq(b, 1, Len(b) - 1)) ELSE b

\* strings.Trim(s, " ")
Trim(b) == TrimRight(TrimLeft(b))

Ellipsis == <<".", ".", ".">>

\* lines 296-299 of FetchPost, on the bytes of the text
headerContent(content) ==
    IF Len(content) > HeaderLimit
    THEN Trim(SubSeq(content, 1, HeaderLimit)) \o Ellipsis
    ELSE <<>>

\* ---- Cache (SqliteCache) ------------------------------------------------
GetChannel(chs, name) ==
    LET hit == SelectSeq(chs, LAMBDA r : r.Name = name)
    IN  IF hit = <<>> THEN [err |-> "sql: no rows in result set", channel |-> ZeroDbChannel]
        ELSE [err |-> "", channel |-> hit[1]]

\* INSERT INTO channels; name is UNIQUE: on a second insert Exec fails, res is
\* nil and res.LastInsertId() panics.
SaveChannel(chs, ch) ==
    IF \E i \in 1..Len(chs) : chs[i].Name = ch.Name
    THEN [panic |-> TRUE, table |-> chs, channel |-> ZeroDbChannel]
    ELSE LET row == [Id |-> Len(chs) + 1, Name |-> ch.Name, Title |-> ch.Title,
                     LastId |-> ch.LastId, Link |-> ch.Link,
                     Description |-> ch.Description]
         IN  [panic |-> FALSE, table |-> Append(chs, row), channel |-> row]

UpdateLastPostId(chs, channelId, lastPostId) ==
    [i \in 1..Len(chs) |->
        IF chs[i].Id = channelId THEN [chs[i] EXCEPT !.LastId = lastPostId]
        ELSE chs[i]]

RECURSIVE OrderByCreatedAtDesc(_)
\* selection of the rows by createdAt descending, equal values in rowid order
OrderByCreatedAtDesc(rows) ==
    IF rows = <<>> THEN <<>>
    ELSE LET i == CHOOSE k \in 1..Len(rows) :
                     /\ \A j \in 1..Len(rows) : rows[j].CreatedAt <= rows[k].CreatedAt
                     /\ \A j \in 1..(k - 1) : rows[j].CreatedAt < rows[k].CreatedAt
             rest == [j \in 1..(Len(rows) - 1) |-> IF j < i THEN rows[j] ELSE rows[j + 1]]
         IN  <<rows[i]>> \o OrderByCreatedAtDesc(rest)

\* SELECT id, header, content, link, createdAt ... ORDER BY createdAt DESC LIMIT ?
GetPosts(tbl, channelId, count) ==
    LET mine == SelectSeq(tbl, LAMBDA r : r.ChannelId = channelId)
        sorted == OrderByCreatedAtDesc(mine)
    IN  [i \in 1..Min(count, Len(sorted)) |->
            [Id |-> sorted[i].Id, Link |-> sorted[i].Link,
             CreatedAt |-> sorted[i].CreatedAt, ChannelId |-> 0]]

\* One transaction: either every post is inserted or, on failure, none.
\* failAt is 0 when nothing fails, i when the INSERT of the i-th post (or, for
\* i = 1, Begin or Prepare) fails, Len(ps) + 1 when Commit fails; on failure
\* the rows built before it are returned with the error.
SavePosts(tbl, channelId, ps, failAt) ==
    LET saved == [i \in 1..Len(ps) |->
                    [Id |-> Len(tbl) + i, Link |-> ps[i].Link,
                     CreatedAt |-> ps[i].CreatedAt, ChannelId |-> channelId]]
    IN  IF failAt # 0
        THEN [err |-> "sqlite", table |-> tbl, saved |-> SubSeq(saved, 1, failAt - 1)]
        ELSE [err |-> "", table |-> tbl \o saved, saved |-> saved]

\* ---- feed ---------------------------------------------------------------
generateFeed(ch, dbPosts) ==
    [Title |-> ch.Name,
     Items |-> [i \in 1..Len(dbPosts) |->
                  [Link |-> dbPosts[i].Link, Created |-> dbPosts[i].CreatedAt]]]

EmptyFeed == [Title |-> "", Items |-> <<>>]

\* ---- pieces of prepareFeed ----------------------------------------------
\* the freshness check of line 363
IsFresh(dbCh, ch) == dbCh.LastId = ch.LastId

\* the loop condition without the test of the candidate id
LoopCondNoFloor(id, ps) == Len(ps) < MAX_RSS_POSTS_COUNT

\* the loop condition with <= for <
LoopCondOffByOne(id, ps) == id > 0 /\ Len(ps) <= MAX_RSS_POSTS_COUNT

\* the loop condition of line 377
LoopCond(id, ps) == id > 0 /\ Len(ps) < MAX_RSS_POSTS_COUNT

\* the duplicate guard comparing with the first collected post, not the last
IsDuplicateOfFirst(ps, post) == Len(ps) > 0 /\ post.CreatedAt = ps[1].CreatedAt

\* the duplicate guard of line 388
IsDuplicate(ps, post) == Len(ps) > 0 /\ post.CreatedAt = ps[Len(ps)].CreatedAt

\* the boundary test of line 393, on the already decremented postId
AtCursor(id, dbCh) == id = dbCh.LastId

\* lastId taken from the walk's candidate id instead of the head
NewLastIdCandidate(ch, id, ps) == id

\* the value written to lastId at line 400
NewLastId(ch, id, ps) == ch.LastId

\* the stale path answering from the store, as the fresh path does
StaleReturnMerged(dbCh, res) ==
    IF res.err # "" THEN [feed |-> EmptyFeed, err |-> ""]
    ELSE [feed |-> generateFeed(dbCh, GetPosts(res.table, dbCh.Id, MAX_RSS_POSTS_COUNT)),
          err |-> ""]

\* what the stale path returns, lines 401-409
StaleReturn(dbCh, res) ==
    IF res.err # "" THEN [feed |-> EmptyFeed, err |-> ""]
    ELSE [feed |-> generateFeed(dbCh, res.saved), err |-> ""]

\* what the fresh path returns, lines 364-373
FreshReturn(dbCh, dbPosts, e) ==
    IF e = "" THEN [feed |-> generateFeed(dbCh, dbPosts), err |-> ""]
    ELSE [feed |-> EmptyFeed, err |-> e]

\* the branch on the head fetch's error ignored
AfterFetchChannelIgnoringErr(e) == "GetChannel"

\* the branch of line 352 on the head fetch's error: where prepareFeed goes on
AfterFetchChannel(e) == IF e = "" THEN "GetChannel" ELSE "done"

\* what prepareFeed returns when the head fetch failed, lines 411-415
HeadFailureReturn(e) == [feed |-> EmptyFeed, err |-> e]

\* ---- initial state ------------------------------------------------------
NoPage == [kind |-> "none", ids |-> <<>>, content |-> <<>>]
NoParse == [err |-> "", channel |-> ZeroChannel, header |-> <<>>]

NoUpdate == [by |-> 0, head |-> 0]

NoReturn == [feed |-> EmptyFeed, err |-> ""]

Init ==
    /\ channels = <<>>
    /\ postsTable = <<>>
    /\ remoteHead \in (0..MaxYoung) \cup {OldHead}
    /\ headDropped = FALSE
    /\ syncs = 0
    /\ faults = 0
    /\ pc = [p \in Procs |-> "idle"]
    /\ channel = [p \in Procs |-> ZeroChannel]
    /\ err = [p \in Procs |-> ""]
    /\ dbCachedChannel = [p \in Procs |-> ZeroDbChannel]
    /\ posts = [p \in Procs |-> <<>>]
    /\ postId = [p \in Procs |-> 0]
    /\ ret = [p \in Procs |-> NoReturn]
    /\ fetchLog = [p \in Procs |-> <<>>]
    /\ storeLog = [p \in Procs |-> <<>>]
    /\ lastUpdate = NoUpdate
    /\ lostIds = {}
    /\ lostBatch = 0
    /\ txOwner = 0
    /\ doc = NoPage
    /\ parsed = NoParse

\* ---- steps of prepareFeed -----------------------------------------------
\* the ids a walk asked FetchPost for and got an error (lines 382-386)
FailedIds(log) == { log[i].id : i \in { j \in DOMAIN log : log[j].outcome = "err" } }
\* the call's SavePosts returned an error (line 402)
SaveFailed(log) == \E i \in DOMAIN log : log[i].op = "SavePosts" /\ ~log[i].ok
\* another request's transaction holds the write lock: the statements of p on
\* table posts and its writes fail with "database table is locked"
Locked(p) == txOwner \notin {0, p}
\* another request is between rows.Next and rows.Close of GetChannel (line
\* 116) and holds the read lock of table channels: the writes of p to it fail
ChannelsRead(p) == \E q \in Procs \ {p} : pc[q] = "Scan"
\* another request is inside the loop of GetPosts (lines 158-165) and holds
\* the read lock of table posts: the INSERT of p fails
PostsRead(p) == \E q \in Procs \ {p} : pc[q] = "Rows"
\* the UPDATE of this call has failed: what made it fail may still be there at
\* the call's next statement, and is the same irregularity
StillFailing(p) ==
    \E i \in DOMAIN storeLog[p] : storeLog[p][i] = [op |-> "UpdateLastPostId", ok |-> FALSE]
HeadChoices ==
    { h \in 0..MaxHead : \/ h - remoteHead \in HeadGrows
                         \/ faults < MaxFaults /\ h - remoteHead \in HeadDrops }


\* line 349 and, on failure, lines 411-415.  When FetchChannel panics the
\* call ends there: prepareFeed returns nothing and the store is not touched.
DoFetchChannel(p) ==
    /\ pc[p] \in {"idle", "done", "panic"}
    /\ syncs < MaxSyncs
    /\ \E h \in HeadChoices :
       \E page \in {RegularListing(h)} \cup
                   (IF faults < MaxFaults /\ h >= remoteHead
                    THEN IrregularListings(h) ELSE {}) :
         LET r == FetchChannel(ChannelName, page)
         IN  /\ remoteHead' = h
             /\ headDropped' = (headDropped \/ h < remoteHead)
             /\ faults' = IF page = RegularListing(h) /\ h >= remoteHead
                          THEN faults ELSE faults + 1
             /\ channel' = [channel EXCEPT ![p] = r.channel]
             /\ err' = [err EXCEPT ![p] = r.err]
             /\ pc' = [pc EXCEPT ![p] =
                   IF r.panic THEN "panic" ELSE AfterFetchChannel(r.err)]
             /\ ret' = [ret EXCEPT ![p] =
                   IF r.err = "" THEN NoReturn ELSE HeadFailureReturn(r.err)]
    /\ syncs' = syncs + 1
    /\ dbCachedChannel' = [dbCachedChannel EXCEPT ![p] = ZeroDbChannel]
    /\ posts' = [posts EXCEPT ![p] = <<>>]
    /\ postId' = [postId EXCEPT ![p] = 0]
    /\ fetchLog' = [fetchLog EXCEPT ![p] = <<>>]
    /\ storeLog' = [storeLog EXCEPT ![p] = <<>>]
    /\ lostBatch' = IF pc[p] = "done" /\ SaveFailed(storeLog[p])
                    THEN channel[p].LastId ELSE 0
    /\ UNCHANGED <<channels, postsTable,
                   lastUpdate, lostIds, txOwner, doc, parsed>>

\* line 353: GetChannel up to rows.Next of its Scan (line 116).  With no row,
\* or when the SELECT fails, the call is over and returns the error, which
\* line 355 takes for a miss; with a row the statement stays open, holding the
\* read lock of table channels.
DoGetChannel(p) ==
    /\ pc[p] = "GetChannel"
    /\ \E fail \in {FALSE} \cup
                   (IF faults < MaxFaults /\ GetChannel(channels, ChannelName).err = ""
                    THEN {TRUE} ELSE {}) :
         LET r == IF fail THEN [err |-> "sqlite", channel |-> ZeroDbChannel]
                  ELSE GetChannel(channels, ChannelName)
         IN  /\ dbCachedChannel' = [dbCachedChannel EXCEPT ![p] =
                    IF r.err = "" THEN @ ELSE r.channel]
             /\ storeLog' = [storeLog EXCEPT ![p] =
                    IF r.err = "" THEN @ ELSE Append(@, [op |-> "GetChannel", ok |-> FALSE])]
             /\ faults' = IF fail THEN faults + 1 ELSE faults
             /\ pc' = [pc EXCEPT ![p] = IF r.err = "" THEN "Scan" ELSE "SaveChannel"]
    /\ UNCHANGED <<channels, postsTable, remoteHead, headDropped, syncs,
                   channel, err, posts, postId, ret, fetchLog,
                   lastUpdate, lostIds, lostBatch, txOwner, doc, parsed>>

\* line 353: the rest of GetChannel, the copy of the row and rows.Close
DoScan(p) ==
    /\ pc[p] = "Scan"
    /\ LET r == GetChannel(channels, ChannelName)
       IN  /\ dbCachedChannel' = [dbCachedChannel EXCEPT ![p] = r.channel]
           /\ storeLog' = [storeLog EXCEPT ![p] =
                  Append(@, [op |-> "GetChannel", ok |-> (r.err = "")])]
    /\ pc' = [pc EXCEPT ![p] = "Check"]
    /\ UNCHANGED <<channels, postsTable, remoteHead, headDropped, syncs, faults,
                   channel, err, posts, postId, ret, fetchLog,
                   lastUpdate, lostIds, lostBatch, txOwner, doc, parsed>>

\* the new channel record taking the fetched head as its lastId
newChannelAtHead(ch) ==
    [Name |-> ch.Name, Title |-> ch.Title, LastId |-> ch.LastId, Link |-> ch.Link,
     Description |-> ch.Description]
\* line 356
newChannel(ch) ==
    [Name |-> ch.Name, Title |-> ch.Title, LastId |-> 0, Link |-> ch.Link,
     Description |-> ch.Description]

\* lines 355-358.  When the INSERT fails, on a stored name, under another
\* request's lock or on its own, res is nil and line 126 panics.
DoSaveChannel(p) ==
    /\ pc[p] = "SaveChannel"
    /\ \E fail \in {FALSE} \cup (IF faults < MaxFaults THEN {TRUE} ELSE {}) :
         LET r == IF fail \/ Locked(p) \/ ChannelsRead(p)
                  THEN [panic |-> TRUE, table |-> channels, channel |-> ZeroDbChannel]
                  ELSE SaveChannel(channels, newChannel(channel[p]))
         IN  /\ channels' = r.table
             /\ dbCachedChannel' = [dbCachedChannel EXCEPT ![p] = r.channel]
             /\ storeLog' = [storeLog EXCEPT ![p] =
                    Append(@, [op |-> "SaveChannel", ok |-> ~r.panic])]
             /\ faults' = IF fail THEN faults + 1 ELSE faults
             /\ pc' = [pc EXCEPT ![p] = IF r.panic THEN "panic" ELSE "Check"]
    /\ UNCHANGED <<postsTable, remoteHead, headDropped, syncs,
                   channel, err, posts, postId, ret, fetchLog,
                   lastUpdate, lostIds, lostBatch, txOwner, doc, parsed>>

\* lines 363-373: the cache is current, answer from the store; GetPosts up to
\* its first rows.Next (lines 152-158).  The Query fails and the error is
\* returned; or rows.Next ends the loop at once, with no row, under another
\* request's write lock or by a failure of its own (rows.Err is not read), and
\* the call returns what it has, nothing, and no error; or the first row is
\* there and the statement stays open, holding the read lock of table posts.
DoFresh(p) ==
    /\ pc[p] = "Check"
    /\ IsFresh(dbCachedChannel[p], channel[p])
    /\ \E fail \in {"no"} \cup (IF faults < MaxFaults THEN {"query", "next"} ELSE {}) :
         LET dbPosts == IF fail # "no" \/ Locked(p) THEN <<>>
                        ELSE GetPosts(postsTable, dbCachedChannel[p].Id, MAX_RSS_POSTS_COUNT)
             e == IF fail = "query" THEN "sqlite" ELSE ""
             over == fail # "no" \/ dbPosts = <<>>
         IN  /\ ret' = [ret EXCEPT ![p] =
                   IF over THEN FreshReturn(dbCachedChannel[p], dbPosts, e) ELSE @]
             /\ storeLog' = [storeLog EXCEPT ![p] =
                   IF over THEN Append(@, [op |-> "GetPosts", ok |-> e = ""]) ELSE @]
             /\ faults' = IF fail # "no" THEN faults + 1 ELSE faults
             /\ pc' = [pc EXCEPT ![p] = IF over THEN "done" ELSE "Rows"]
    /\ UNCHANGED <<channels, postsTable, remoteHead, headDropped, syncs,
                   channel, err, dbCachedChannel, posts, postId, fetchLog,
                   lastUpdate, lostIds, lostBatch, txOwner, doc, parsed>>

\* the rest of GetPosts (lines 158-166: the further rows, rows.Close) and
\* lines 365-368; a rows.Next that fails ends the loop, and the rows read so
\* far are returned with no error
DoRows(p) ==
    /\ pc[p] = "Rows"
    /\ LET all == GetPosts(postsTable, dbCachedChannel[p].Id, MAX_RSS_POSTS_COUNT)
       IN  \E n \in {Len(all)} \cup (IF faults < MaxFaults THEN 1..(Len(all) - 1) ELSE {}) :
             /\ ret' = [ret EXCEPT ![p] =
                   FreshReturn(dbCachedChannel[p], SubSeq(all, 1, n), "")]
             /\ faults' = IF n < Len(all) THEN faults + 1 ELSE faults
    /\ storeLog' = [storeLog EXCEPT ![p] = Append(@, [op |-> "GetPosts", ok |-> TRUE])]
    /\ pc' = [pc EXCEPT ![p] = "done"]
    /\ UNCHANGED <<channels, postsTable, remoteHead, headDropped, syncs,
                   channel, err, dbCachedChannel, posts, postId, fetchLog,
                   lastUpdate, lostIds, lostBatch, txOwner, doc, parsed>>

\* lines 374-377: the cache is stale, start the walk at the head
DoStale(p) ==
    /\ pc[p] = "Check"
    /\ ~IsFresh(dbCachedChannel[p], channel[p])
    /\ postId' = [postId EXCEPT ![p] = channel[p].LastId]
    /\ pc' = [pc EXCEPT ![p] =
          IF LoopCond(channel[p].LastId, posts[p]) THEN "Loop" ELSE "Update"]
    /\ UNCHANGED <<channels, postsTable, remoteHead, headDropped, syncs, faults,
                   channel, err, dbCachedChannel, posts, ret, fetchLog, storeLog,
                   lastUpdate, lostIds, lostBatch, txOwner, doc, parsed>>

AfterFetchPostStopsOnError(outcome, id, ps) ==
    IF outcome \in {"break", "err"} \/ ~LoopCond(id, ps) THEN "Update" ELSE "Loop"
\* lines 377, 384-386, 389-391, 393-395: where an iteration of the walk leaves
\* control: the break leaves the loop, the continues and the append go back to
\* the loop condition
AfterFetchPost(outcome, id, ps) ==
    IF outcome = "break" \/ ~LoopCond(id, ps) THEN "Update" ELSE "Loop"

\* lines 377-398: one iteration of the walk
DoFetchPost(p) ==
    /\ pc[p] = "Loop"
    /\ \E page \in {RegularPostPage(postId[p])} \cup
                   (IF faults < MaxFaults THEN IrregularPostPages(postId[p]) ELSE {}) :
         LET r == FetchPost(channel[p].Name, postId[p], page)
             nid == postId[p] - 1
             outcome == IF r.err # "" THEN "err"
                        ELSE IF IsDuplicate(posts[p], r.post) THEN "dup"
                        ELSE IF AtCursor(nid, dbCachedChannel[p]) THEN "break"
                        ELSE "ok"
             nposts == IF outcome = "ok" THEN Append(posts[p], r.post) ELSE posts[p]
         IN  /\ postId' = [postId EXCEPT ![p] = nid]
             /\ posts' = [posts EXCEPT ![p] = nposts]
             /\ fetchLog' = [fetchLog EXCEPT ![p] =
                    Append(@, [id |-> postId[p], outcome |-> outcome,
                               createdAt |-> r.post.CreatedAt])]
             /\ faults' = IF page = RegularPostPage(postId[p]) THEN faults ELSE faults + 1
             /\ pc' = [pc EXCEPT ![p] = AfterFetchPost(outcome, nid, nposts)]
    /\ UNCHANGED <<channels, postsTable, remoteHead, headDropped, syncs,
                   channel, err, dbCachedChannel, ret, storeLog,
                   lastUpdate, lostIds, lostBatch, txOwner, doc, parsed>>

\* line 400: the UPDATE, whose error is dropped; it fails under another
\* request's lock or on its own
DoUpdateLastPostId(p) ==
    /\ pc[p] = "Update"
    /\ \E fail \in {FALSE} \cup (IF faults < MaxFaults THEN {TRUE} ELSE {}) :
         LET failed == fail \/ Locked(p) \/ ChannelsRead(p)
         IN  /\ channels' = IF failed THEN channels
                            ELSE UpdateLastPostId(channels, dbCachedChannel[p].Id,
                                                  NewLastId(channel[p], postId[p], posts[p]))
             /\ storeLog' = [storeLog EXCEPT ![p] =
                    Append(@, [op |-> "UpdateLastPostId", ok |-> ~failed])]
             /\ lostIds' = IF failed THEN lostIds ELSE lostIds \cup FailedIds(fetchLog[p])
             /\ faults' = IF fail THEN faults + 1 ELSE faults
    /\ lastUpdate' = [by |-> p, head |-> channel[p].LastId]
    /\ pc' = [pc EXCEPT ![p] = "SavePosts"]
    /\ UNCHANGED <<postsTable, remoteHead, headDropped, syncs,
                   channel, err, dbCachedChannel, posts, postId, ret, fetchLog,
                   lostBatch, txOwner, doc, parsed>>

\* lines 401-409, up to the first INSERT of SavePosts (lines 170-185).  With
\* no post to insert the transaction takes no lock and is over in this step;
\* otherwise the first INSERT fails, under another request's lock or on its
\* own (as Begin and Prepare can), and the call returns, or it takes the write
\* lock.
DoSavePosts(p) ==
    /\ pc[p] = "SavePosts"
    /\ \E failAt \in
           IF posts[p] # <<>> /\ (Locked(p) \/ PostsRead(p)) THEN {1}
           ELSE {0} \cup (IF faults < MaxFaults \/ StillFailing(p) THEN {1} ELSE {}) :
         LET r == SavePosts(postsTable, dbCachedChannel[p].Id, posts[p], failAt)
             over == posts[p] = <<>> \/ failAt # 0
         IN  /\ postsTable' = IF over THEN r.table ELSE postsTable
             /\ ret' = [ret EXCEPT ![p] =
                   IF over THEN StaleReturn(dbCachedChannel[p], r) ELSE @]
             /\ storeLog' = [storeLog EXCEPT ![p] =
                   IF over THEN Append(@, [op |-> "SavePosts", ok |-> failAt = 0]) ELSE @]
             /\ faults' = IF /\ failAt # 0
                             /\ ~(posts[p] # <<>> /\ (Locked(p) \/ PostsRead(p)))
                             /\ ~StillFailing(p)
                          THEN faults + 1 ELSE faults
             /\ txOwner' = IF over THEN txOwner ELSE p
             /\ pc' = [pc EXCEPT ![p] = IF over THEN "done" ELSE "Commit"]
    /\ UNCHANGED <<channels, remoteHead, headDropped, syncs,
                   channel, err, dbCachedChannel, posts, postId, fetchLog,
                   lastUpdate, lostIds, lostBatch, doc, parsed>>

\* the rest of SavePosts (lines 184-204: the further INSERTs and Commit, or
\* Rollback) and lines 402-409
DoCommit(p) ==
    /\ pc[p] = "Commit"
    /\ \E failAt \in {0} \cup (IF faults < MaxFaults THEN 2..(Len(posts[p]) + 1) ELSE {}) :
         LET r == SavePosts(postsTable, dbCachedChannel[p].Id, posts[p], failAt)
         IN  /\ postsTable' = r.table
             /\ ret' = [ret EXCEPT ![p] = StaleReturn(dbCachedChannel[p], r)]
             /\ storeLog' = [storeLog EXCEPT ![p] =
                    Append(@, [op |-> "SavePosts", ok |-> failAt = 0])]
             /\ faults' = IF failAt # 0 THEN faults + 1 ELSE faults
    /\ txOwner' = 0
    /\ pc' = [pc EXCEPT ![p] = "done"]
    /\ UNCHANGED <<channels, remoteHead, headDropped, syncs,
                   channel, err, dbCachedChannel, posts, postId, fetchLog,
                   lastUpdate, lostIds, lostBatch, doc, parsed>>

\* ---- specification: requests served one after another -------------------
Next ==
    \E p \in SeqProcs :
        \/ DoFetchChannel(p)
        \/ DoGetChannel(p)
        \/ DoScan(p)
        \/ DoSaveChannel(p)
        \/ DoFresh(p)
        \/ DoRows(p)
        \/ DoStale(p)
        \/ DoFetchPost(p)
        \/ DoUpdateLastPostId(p)
        \/ DoSavePosts(p)
        \/ DoCommit(p)

Spec == Init /\ [][Next]_vars

\* ---- specification: requests for the same channel served concurrently ----
\* gin serves every request on a goroutine of its own; the steps of two calls
\* of prepareFeed interleave at their Fetcher and Cache calls.
\* The store after one undisturbed call of prepareFeed, alone, for a channel
\* whose head was h: the record with lastId h and the posts h..2 of its walk
\* (the walk ends at id 1, whose decremented id is the cursor 0).
SyncedChannels(h) ==
    SaveChannel(<<>>, [FetchChannel(ChannelName, RegularListing(h)).channel
                          EXCEPT !.LastId = h]).table

SyncedPosts(h) ==
    SavePosts(<<>>, 1,
              [i \in 1..Min(h - 1, MAX_RSS_POSTS_COUNT) |->
                  FetchPost(ChannelName, h - i + 1, RegularPostPage(h - i + 1)).post],
              0).table

\* two requests arrive for a channel never requested (h = 0) or synchronised
\* once before, at head h
InitConc ==
    /\ \E h \in 0..MaxYoung :
         /\ remoteHead = h
         /\ channels = IF h = 0 THEN <<>> ELSE SyncedChannels(h)
         /\ postsTable = IF h = 0 THEN <<>> ELSE SyncedPosts(h)
    /\ headDropped = FALSE
    /\ syncs = 0
    /\ faults = 0
    /\ pc = [p \in Procs |-> "idle"]
    /\ channel = [p \in Procs |-> ZeroChannel]
    /\ err = [p \in Procs |-> ""]
    /\ dbCachedChannel = [p \in Procs |-> ZeroDbChannel]
    /\ posts = [p \in Procs |-> <<>>]
    /\ postId = [p \in Procs |-> 0]
    /\ ret = [p \in Procs |-> NoReturn]
    /\ fetchLog = [p \in Procs |-> <<>>]
    /\ storeLog = [p \in Procs |-> <<>>]
    /\ lastUpdate = NoUpdate
    /\ lostIds = {}
    /\ lostBatch = 0
    /\ txOwner = 0
    /\ doc = NoPage
    /\ parsed = NoParse

\* ---- a channel whose first call lost an item ----------------------------
\* the ids the first call for a channel with head h collects when FetchPost
\* fails for id x: h down to 2 without x (lines 375-398, cursor 0)
WalkedIds(h, x) == SelectSeq([i \in 1..(h - 1) |-> h - i + 1], LAMBDA id : id # x)
\* table posts after that call
LossyPosts(h, x) ==
    SavePosts(<<>>, 1,
              [i \in DOMAIN WalkedIds(h, x) |->
                  FetchPost(ChannelName, WalkedIds(h, x)[i],
                            RegularPostPage(WalkedIds(h, x)[i])).post],
              0).table

\* the channel was never requested, or was requested once with head h and the
\* fetch of item x failed in that call
InitRetry ==
    /\ \E h \in 0..MaxYoung : \E x \in 0..h :
         /\ (x = 0) = (h = 0)
         /\ remoteHead = h
         /\ channels = IF h = 0 THEN <<>> ELSE SyncedChannels(h)
         /\ postsTable = IF h = 0 THEN <<>> ELSE LossyPosts(h, x)
         /\ lostIds = IF h = 0 THEN {} ELSE {x}
    /\ headDropped = FALSE
    /\ syncs = 0
    /\ faults = 0
    /\ pc = [p \in Procs |-> "idle"]
    /\ channel = [p \in Procs |-> ZeroChannel]
    /\ err = [p \in Procs |-> ""]
    /\ dbCachedChannel = [p \in Procs |-> ZeroDbChannel]
    /\ posts = [p \in Procs |-> <<>>]
    /\ postId = [p \in Procs |-> 0]
    /\ ret = [p \in Procs |-> NoReturn]
    /\ fetchLog = [p \in Procs |-> <<>>]
    /\ storeLog = [p \in Procs |-> <<>>]
    /\ lastUpdate = NoUpdate
    /\ lostBatch = 0
    /\ txOwner = 0
    /\ doc = NoPage
    /\ parsed = NoParse

SpecRetry == InitRetry /\ [][Next]_vars

\* each of the two requests is one call of prepareFeed
NextConc ==
    \E p \in Procs :
        \/ pc[p] = "idle" /\ DoFetchChannel(p)
        \/ DoGetChannel(p)
        \/ DoScan(p)
        \/ DoSaveChannel(p)
        \/ DoFresh(p)
        \/ DoRows(p)
        \/ DoStale(p)
        \/ DoFetchPost(p)
        \/ DoUpdateLastPostId(p)
        \/ DoSavePosts(p)
        \/ DoCommit(p)

SpecConc == InitConc /\ [][NextConc]_vars

\* ---- specification: the Fetcher's parsing on its own ---------------------
\* the listing pages: up to MaxListing messages in any order
ListingSeqs == UNION { [1..n -> 1..MaxListingId] : n \in 0..MaxListing }

Fill(n) == [i \in 1..n |-> "a"]

\* texts around HeaderLimit bytes, with any character first and any after the
\* filling
PostContents ==
    { <<r1>> \o Fill(n) \o <<r2>> \o Fill(m) :
        r1 \in Runes, r2 \in Runes,
        n \in (HeaderLimit - 4)..(HeaderLimit - 1), m \in 0..MaxTail }

InitFetcher ==
    /\ channels = <<>>
    /\ postsTable = <<>>
    /\ remoteHead = 0
    /\ headDropped = FALSE
    /\ syncs = 0
    /\ faults = 0
    /\ pc = [p \in Procs |-> "idle"]
    /\ channel = [p \in Procs |-> ZeroChannel]
    /\ err = [p \in Procs |-> ""]
    /\ dbCachedChannel = [p \in Procs |-> ZeroDbChannel]
    /\ posts = [p \in Procs |-> <<>>]
    /\ postId = [p \in Procs |-> 0]
    /\ ret = [p \in Procs |-> NoReturn]
    /\ fetchLog = [p \in Procs |-> <<>>]
    /\ storeLog = [p \in Procs |-> <<>>]
    /\ lastUpdate = NoUpdate
    /\ lostIds = {}
    /\ lostBatch = 0
    /\ txOwner = 0
    /\ doc = NoPage
    /\ parsed = NoParse

\* FetchChannel applied to a listing page that was read to its end and whose
\* messages all carry their id
DoParseListing ==
    /\ \E ids \in ListingSeqs :
         LET r == FetchChannel(ChannelName,
                     [neterr |-> FALSE, body |-> TRUE, slash |-> TRUE,
                      ids |-> ids, title |-> "T1", description |-> "D1"])
         IN  /\ doc' = [kind |-> "listing", ids |-> ids, content |-> <<>>]
             /\ parsed' = [err |-> r.err, channel |-> r.channel, header |-> <<>>]
    /\ UNCHANGED <<channels, postsTable, remoteHead, headDropped, syncs, faults, pc,
                   channel, err, dbCachedChannel, posts, postId, ret, fetchLog,
                   storeLog, lastUpdate,
                   lostIds, lostBatch, txOwner>>

\* the header FetchPost makes of the text of a post page
DoParsePost ==
    /\ \E content \in PostContents :
         /\ doc' = [kind |-> "post", ids |-> <<>>, content |-> content]
         /\ parsed' = [err |-> "", channel |-> ZeroChannel,
                       header |-> headerContent(UTF8(content))]
    /\ UNCHANGED <<channels, postsTable, remoteHead, headDropped, syncs, faults, pc,
                   channel, err, dbCachedChannel, posts, postId, ret, fetchLog,
                   storeLog, lastUpdate,
                   lostIds, lostBatch, txOwner>>

NextFetcher == DoParseListing \/ DoParsePost

SpecFetcher == InitFetcher /\ [][NextFetcher]_vars

\* ---- vocabulary of the properties ----------------------------------------
\* the stored cursor of the channel, 0 while no record exists
Cursor == GetChannel(channels, ChannelName).channel.LastId

Done(p) == pc[p] = "done"
Called(p, op) == \E i \in DOMAIN storeLog[p] : storeLog[p][i].op = op
Failed(p, op) == \E i \in DOMAIN storeLog[p] : storeLog[p][i].op = op /\ ~storeLog[p][i].ok
Items(p) == ret[p].feed.Items
Outcomes(p) == { fetchLog[p][i].outcome : i \in DOMAIN fetchLog[p] }

\* the call of p found the cursor equal to / different from the head it fetched
FoundFresh(p) ==
    /\ pc[p] \in {"done"}
    /\ err[p] = ""
    /\ dbCachedChannel[p].LastId = channel[p].LastId
FoundStale(p) ==
    /\ pc[p] \in {"Loop", "Update", "SavePosts", "Commit", "done"}
    /\ err[p] = ""
    /\ dbCachedChannel[p].LastId # channel[p].LastId

\* items is the newest MAX_RSS_POSTS_COUNT rows of the channel, newest first
IsNewestOf(items, rows) ==
    LET NItems(l, t) == Cardinality({ i \in DOMAIN items :
                            items[i].Link = l /\ items[i].Created = t })
        NRows(l, t) == Cardinality({ j \in DOMAIN rows :
                            rows[j].Link = l /\ rows[j].CreatedAt = t })
    IN  /\ Len(items) = Min(MAX_RSS_POSTS_COUNT, Len(rows))
        /\ \A i \in 1..(Len(items) - 1) : items[i].Created >= items[i + 1].Created
        /\ \A i \in DOMAIN items :
              NItems(items[i].Link, items[i].Created) <= NRows(items[i].Link, items[i].Created)
        /\ \A j \in DOMAIN rows :
              (items # <<>> /\ rows[j].CreatedAt > items[Len(items)].Created)
                  => NItems(rows[j].Link, rows[j].CreatedAt) = NRows(rows[j].Link, rows[j].CreatedAt)

\* C1: a call that finds the stored cursor equal to the head it fetched calls
\* FetchPost never, calls neither UpdateLastPostId nor SavePosts, leaves both
\* tables as they are and, when GetPosts succeeds, returns the channel's newest
\* rows, at most 20, by createdAt descending.
C1_FreshPath ==
    /\ [](\A p \in Procs : FoundFresh(p) =>
            /\ fetchLog[p] = <<>>
            /\ ~Called(p, "UpdateLastPostId") /\ ~Called(p, "SavePosts")
            /\ Called(p, "GetPosts")
            /\ ~Failed(p, "GetPosts") =>
                 /\ ret[p].err = ""
                 /\ Len(Items(p)) <= MAX_RSS_POSTS_COUNT
                 /\ IsNewestOf(Items(p),
                        SelectSeq(postsTable,
                                  LAMBDA r : r.ChannelId = dbCachedChannel[p].Id)))
    /\ [][\A p \in Procs :
            (pc[p] \in {"Check", "Rows"} /\ pc'[p] # pc[p]
               /\ dbCachedChannel[p].LastId = channel[p].LastId)
            => (channels' = channels /\ postsTable' = postsTable
                  /\ fetchLog' = fetchLog)]_vars

\* C2: in a call whose stored cursor is below the head, the ids passed to
\* FetchPost start at the head, go down by one and stay above the cursor.
C2_WalkAboveCursor ==
    \A p \in Procs :
        (FoundStale(p) /\ dbCachedChannel[p].LastId < channel[p].LastId) =>
            /\ fetchLog[p] # <<>> => fetchLog[p][1].id = channel[p].LastId
            /\ \A i \in 1..(Len(fetchLog[p]) - 1) :
                  fetchLog[p][i + 1].id = fetchLog[p][i].id - 1
            /\ \A i \in DOMAIN fetchLog[p] :
                  fetchLog[p][i].id > dbCachedChannel[p].LastId

\* C3: when a call on the stale path is complete, the stored cursor is the
\* head id that call fetched.
C3_CursorIsHead ==
    \A p \in Procs : (Done(p) /\ FoundStale(p)) => Cursor = channel[p].LastId

\* C4 as stated: the stored cursor never goes down.
C4_CursorNeverDecreases == [][Cursor' >= Cursor]_vars

\* C4 amended: over calls served one after another, none starting before the
\* one before it has returned, as long as the head ids the Fetcher returned
\* have never gone down the stored cursor has not gone down either, whether
\* the writes of the cursor succeeded or failed.
C4_CursorFollowsHead == [][~headDropped' => Cursor' >= Cursor]_vars

\* a second stale call moved the cursor up from a value above 0
C4_Witness ==
    \E p \in Procs :
        /\ Done(p) /\ FoundStale(p) /\ ~headDropped
        /\ dbCachedChannel[p].LastId > 0
        /\ Cursor > dbCachedChannel[p].LastId

\* C5: what prepareFeed hands to the feed holds at most 20 items.
C5_FeedCap == \A p \in Procs : Len(Items(p)) <= MAX_RSS_POSTS_COUNT

\* a walk was cut at 20 collected posts with ids left to fetch
C5_Witness ==
    \E p \in Procs :
        /\ Done(p) /\ FoundStale(p)
        /\ Len(Items(p)) = MAX_RSS_POSTS_COUNT
        /\ postId[p] > 0

\* C6: a fetched post whose createdAt is that of the post collected last is
\* not collected, and no two neighbours of the collected batch, or of the
\* batch returned, share a createdAt.
C6_NoAdjacentDuplicates ==
    \A p \in Procs :
        /\ \A i \in 1..(Len(posts[p]) - 1) :
              posts[p][i].CreatedAt # posts[p][i + 1].CreatedAt
        /\ FoundStale(p) => \A i \in 1..(Len(Items(p)) - 1) :
              Items(p)[i].Created # Items(p)[i + 1].Created
        /\ \A i \in DOMAIN fetchLog[p] : \A j \in 1..(i - 1) :
              ( /\ fetchLog[p][j].outcome = "ok"
                /\ \A k \in (j + 1)..(i - 1) : fetchLog[p][k].outcome # "ok"
                /\ fetchLog[p][i].outcome # "err"
                /\ fetchLog[p][i].createdAt = fetchLog[p][j].createdAt )
              => fetchLog[p][i].outcome = "dup"

\* a walk dropped a duplicate and went on collecting
C6_Witness ==
    \E p \in Procs :
        /\ Done(p) /\ FoundStale(p)
        /\ \E i \in DOMAIN fetchLog[p] :
              /\ fetchLog[p][i].outcome = "dup"
              /\ \E k \in DOMAIN fetchLog[p] : k > i /\ fetchLog[p][k].outcome = "ok"

\* C7: no persisted post and no collected post is without a resolved createdAt.
C7_NoUnresolvedCreatedAt ==
    /\ \A j \in DOMAIN postsTable : postsTable[j].CreatedAt # ZeroTime
    /\ \A p \in Procs : \A i \in DOMAIN posts[p] : posts[p][i].CreatedAt # ZeroTime

\* C8: when FetchChannel fails, prepareFeed returns that error and no items,
\* has called neither the Cache nor FetchPost, and both tables are as before.
C8_HeadFailure ==
    /\ [](\A p \in Procs : err[p] # "" =>
            /\ Done(p)
            /\ ret[p].err = err[p]
            /\ Items(p) = <<>>
            /\ storeLog[p] = <<>>
            /\ fetchLog[p] = <<>>)
    /\ [][\A p \in Procs : (err'[p] # "" /\ syncs' # syncs) =>
            (channels' = channels /\ postsTable' = postsTable)]_vars

\* a head fetch failed for a channel that has a record and persisted posts
C8_Witness ==
    \E p \in Procs :
        /\ Done(p) /\ err[p] # "" /\ ret[p].err = err[p]
        /\ channels # <<>> /\ postsTable # <<>>

\* C9: when SavePosts fails, prepareFeed returns an error and no items.
C9_SaveFailureIsError ==
    \A p \in Procs :
        (Done(p) /\ Failed(p, "SavePosts")) => (ret[p].err # "" /\ Items(p) = <<>>)

\* the posts the walk of p collected, as the log of its fetches tells them
CollectedByWalk(p) ==
    LET oks == SelectSeq(fetchLog[p], LAMBDA e : e.outcome = "ok")
    IN  [i \in DOMAIN oks |-> [Link |-> tgChannelPostUrl(ChannelName, oks[i].id),
                               Created |-> oks[i].createdAt]]

\* C10: a stale call whose save succeeded returns the posts its own walk
\* collected, in walk order (ids strictly decreasing), and nothing else.
C10_ReturnsOwnWalk ==
    \A p \in Procs :
        (Done(p) /\ FoundStale(p) /\ ~Failed(p, "SavePosts")) =>
            /\ Items(p) = CollectedByWalk(p)
            /\ \A i \in 1..(Len(Items(p)) - 1) : Items(p)[i].Link > Items(p)[i + 1].Link

\* a stale call returned fewer than 20 items while older posts are persisted
C10_Witness ==
    \E p \in Procs :
        /\ Done(p) /\ FoundStale(p) /\ ~Failed(p, "SavePosts")
        /\ Len(Items(p)) >= 1 /\ Len(Items(p)) < MAX_RSS_POSTS_COUNT
        /\ Len(postsTable) > Len(Items(p))
        /\ Items(p) = CollectedByWalk(p)

\* the greatest element of a non-empty set of numbers
MaxOf(S) == CHOOSE m \in S : \A x \in S : x <= m

\* C11: of a listing page with at least one message FetchChannel returns the
\* greatest id on the page, in whatever order the messages stand; of a page
\* without messages it returns an error and no channel.
C11_HeadIsMax ==
    doc.kind = "listing" =>
        IF doc.ids = <<>>
        THEN parsed.err # "" /\ parsed.channel = ZeroChannel
        ELSE /\ parsed.err = ""
             /\ parsed.channel.LastId = MaxOf({ doc.ids[i] : i \in DOMAIN doc.ids })

\* a page whose greatest id is neither its first nor its last message
C11_Witness ==
    /\ doc.kind = "listing" /\ Len(doc.ids) = 3
    /\ doc.ids[2] > doc.ids[1] /\ doc.ids[2] > doc.ids[3]
    /\ parsed.channel.LastId = doc.ids[2]

\* C12 as stated: the header is the first 100 characters of the text followed
\* by "..." when the text has more than 100 characters, and empty otherwise.
C12_HeaderIsFirstChars ==
    doc.kind = "post" =>
        parsed.header = IF Len(doc.content) > HeaderLimit
                        THEN UTF8(SubSeq(doc.content, 1, HeaderLimit)) \o Ellipsis
                        ELSE <<>>

\* no call of prepareFeed is under way
Quiet == \A p \in Procs : pc[p] \in {"idle", "done", "panic"}

\* C13: with two calls for the same channel under way at once, whenever both
\* have finished the stored cursor is the head fetched by the call whose
\* UpdateLastPostId ran last.
C13_LastWriteWins ==
    (Quiet /\ lastUpdate.by # 0) => Cursor = lastUpdate.head

\* the ids of the posts the call of p returned
ReturnedIds(p) == { Items(p)[i].Link : i \in DOMAIN Items(p) }
\* the ids of the channel's persisted posts
PersistedIds == { postsTable[j].Link : j \in DOMAIN postsTable }

\* C14: in a stale call with cursor c below head h, every id in (c, h] whose
\* fetch succeeded without a duplicate timestamp is returned and persisted,
\* no id <= c is fetched, and when h - c <= 20 and every fetch succeeded with
\* its own timestamp exactly the ids c+1..h are returned.
C14_WalkComplete ==
    \A p \in Procs :
        LET c == dbCachedChannel[p].LastId
            h == channel[p].LastId
        IN  (Done(p) /\ FoundStale(p) /\ c < h /\ ~Failed(p, "SavePosts")) =>
              /\ \A i \in DOMAIN fetchLog[p] :
                    /\ fetchLog[p][i].id > c
                    /\ fetchLog[p][i].outcome \notin {"err", "dup"} =>
                          /\ fetchLog[p][i].id \in ReturnedIds(p)
                          /\ fetchLog[p][i].id \in PersistedIds
              /\ (h - c <= MAX_RSS_POSTS_COUNT /\ Outcomes(p) \subseteq {"ok", "break"})
                    => ReturnedIds(p) = (c + 1)..h

\* the call of p has just made a FetchPost call that ended with outcome o
JustFetched(p, o) ==
    /\ Len(fetchLog'[p]) = Len(fetchLog[p]) + 1
    /\ fetchLog'[p][Len(fetchLog'[p])].outcome = o

\* C15: a FetchPost error is absorbed: the failed id is the candidate, the
\* candidate goes down by one, the collected posts are unchanged, the walk
\* goes on as its loop condition says, and the call does not return an error.
C15_FetchFailureAbsorbed ==
    [][\A p \in Procs :
          /\ JustFetched(p, "err") =>
                /\ fetchLog'[p][Len(fetchLog'[p])].id = postId[p]
                /\ postId'[p] = postId[p] - 1
                /\ posts'[p] = posts[p]
                /\ pc'[p] = IF LoopCond(postId'[p], posts'[p]) THEN "Loop" ELSE "Update"
          /\ (pc'[p] = "done" /\ "err" \in {fetchLog'[p][i].outcome : i \in DOMAIN fetchLog'[p]})
                => ret'[p].err = ""]_vars
\* a finished call whose walk had a failed fetch followed by a collected post
C15_Witness ==
    \E p \in Procs :
        /\ Done(p) /\ ret[p].err = ""
        /\ \E i, j \in DOMAIN fetchLog[p] :
              /\ i < j
              /\ fetchLog[p][i].outcome = "err"
              /\ fetchLog[p][j].outcome = "ok"
              /\ fetchLog[p][j].id \in ReturnedIds(p)

\* C16: while the head never goes down, no call asks FetchPost for an id whose
\* fetch failed in an earlier walk that moved the cursor past it.
C16_NoRetry ==
    [][\A p \in Procs :
          (~headDropped' /\ Len(fetchLog'[p]) = Len(fetchLog[p]) + 1)
             => fetchLog'[p][Len(fetchLog'[p])].id \notin lostIds]_vars

\* the FetchPost calls of p that succeeded with a timestamp of their own
Counted(p) == { i \in DOMAIN fetchLog[p] : fetchLog[p][i].outcome \in {"ok", "break"} }

\* C17 as stated: one call makes at most 20 FetchPost calls.
C17_FetchBudget ==
    \A p \in Procs : Len(fetchLog[p]) <= MAX_RSS_POSTS_COUNT
\* C17: one call asks FetchPost for the head id, then for each next lower id
\* in turn and never for an id below 1, and at most 20 of these calls
\* succeeded with a timestamp of their own.
C17_FetchBudgetOfSuccesses ==
    \A p \in Procs :
        /\ \A i \in DOMAIN fetchLog[p] : fetchLog[p][i].id = channel[p].LastId - i + 1
        /\ Len(fetchLog[p]) <= channel[p].LastId
        /\ Cardinality(Counted(p)) <= MAX_RSS_POSTS_COUNT
\* a finished call that made more than 20 FetchPost calls
C17_Witness ==
    \E p \in Procs :
        /\ Done(p) /\ FoundStale(p)
        /\ Len(fetchLog[p]) > MAX_RSS_POSTS_COUNT
        /\ Cardinality(Counted(p)) = MAX_RSS_POSTS_COUNT

\* the call of p has just had its SavePosts answered, with or without error
JustSaved(p, ok) ==
    /\ Len(storeLog'[p]) = Len(storeLog[p]) + 1
    /\ storeLog'[p][Len(storeLog'[p])] = [op |-> "SavePosts", ok |-> ok]

\* C18: SavePosts inserts every collected post or, when it fails, none; a
\* failure leaves the cursor at the head written just before; and the next
\* call, when it sees the same head, finds the channel fresh and makes no
\* FetchPost call.
C18_LostBatchNotRefetched ==
    [][\A p \in Procs :
          /\ JustSaved(p, TRUE) =>
                /\ Len(postsTable') = Len(postsTable) + Len(posts[p])
                /\ \A i \in DOMAIN posts[p] :
                      postsTable'[Len(postsTable) + i].Link = posts[p][i].Link
          /\ JustSaved(p, FALSE) =>
                /\ postsTable' = postsTable
                /\ channels' = channels
                /\ Cursor' = channel[p].LastId
          /\ ( /\ lostBatch' # 0
               /\ pc'[p] \notin {"idle", "GetChannel", "Scan"}
               /\ err'[p] = ""
               /\ channel'[p].LastId = lostBatch' ) =>
                /\ pc'[p] \in {"Check", "Rows", "done"}
                /\ fetchLog'[p] = <<>>
                /\ pc'[p] = "done" =>
                      \A i \in DOMAIN storeLog'[p] :
                          storeLog'[p][i].op \in {"GetChannel", "GetPosts"}]_vars
\* a channel row without its cursor
Metadata(row) == [Name |-> row.Name, Title |-> row.Title, Link |-> row.Link,
                  Description |-> row.Description]

\* C19: the channel record is created once, by a call whose FetchChannel
\* succeeded, with lastId 0 and the name, title, link and description that
\* call fetched; afterwards no step changes anything of it but lastId; and a
\* call that got a head leaves exactly one record.
C19_ChannelLifecycle ==
    [][/\ (channels = <<>> /\ channels' # <<>>) =>
             \E p \in Procs :
                /\ pc[p] = "SaveChannel" /\ err[p] = ""
                /\ Len(channels') = 1
                /\ channels'[1].LastId = 0
                /\ Metadata(channels'[1]) = Metadata(channel[p])
       /\ channels # <<>> =>
             /\ Len(channels') = Len(channels)
             /\ \A i \in DOMAIN channels :
                   /\ channels'[i].Id = channels[i].Id
                   /\ Metadata(channels'[i]) = Metadata(channels[i])
       /\ \A p \in Procs :
             (pc'[p] = "done" /\ err'[p] = "") => Len(channels') = 1
       /\ \A p \in Procs :
             (pc[p] # "done" /\ pc'[p] = "done" /\ err'[p] # "") => channels' = channels]_vars
\* a call that fetched other metadata than the stored ones has moved the
\* cursor of the existing record
C19_Witness ==
    \E p \in Procs :
        /\ Done(p) /\ FoundStale(p) /\ ~Failed(p, "GetChannel")
        /\ channel[p].Title # channels[1].Title
        /\ channel[p].Description # channels[1].Description
        /\ Cursor = channel[p].LastId /\ Cursor # dbCachedChannel[p].LastId

\* C20: while the head never goes down, no message id is held by two rows of
\* table posts.
C20_PersistedOnce ==
    ~headDropped =>
        \A i, j \in DOMAIN postsTable :
            postsTable[i].Link = postsTable[j].Link => i = j

====
